---- MODULE Spec2Model ----
(***************************************************************************)
(* Model of streamlit_app.py: the yearly budget dashboard of the Portal da *)
(* Transparencia (download of a ZIP, choice of its CSV member, CSV         *)
(* parsing, session state, filters, aggregation).                          *)
(*                                                                         *)
(* Python strings that the code takes apart (member names, column names,   *)
(* money cells) are sequences of one-character strings.  An optional       *)
(* value (Python None or a value) is a sequence of length 0 or 1.          *)
(***************************************************************************)
EXTENDS Integers, Sequences, FiniteSets, TLC

VARIABLES
    df,              \* st.session_state.df
    ano_carregado,   \* st.session_state.ano_carregado
    fonte_url,       \* st.session_state.fonte_url
    zip_files,       \* st.session_state.zip_files
    csv_name_used,   \* st.session_state.csv_name_used
    csv_updated_at,  \* st.session_state.csv_updated_at
    ano,             \* the number_input "Ano": [key, value]
    cache,           \* the st.cache_data store of baixar_zip, per url
    now,             \* wall clock, seconds
    page,            \* what the last script run put on the page
    net,             \* the HTTP requests the last script run issued
    pc,              \* the operation of the last step
    arg,             \* input of the function under check
    ret              \* its result

vars == <<df, ano_carregado, fonte_url, zip_files, csv_name_used,
          csv_updated_at, ano, cache, now, page, net, pc, arg, ret>>

session == <<df, ano_carregado, fonte_url, zip_files, csv_name_used,
             csv_updated_at>>

None == <<>>
Some(v) == <<v>>

-----------------------------------------------------------------------------
(* Strings *)

UpperChars ==
    <<"A","B","C","D","E","F","G","H","I","J","K","L","M","N","O","P","Q",
      "R","S","T","U","V","W","X","Y","Z","Ç","Ã","Ó","É","Í","Â","Ê","Õ",
      "Ú","Á">>

LowerChars ==
    <<"a","b","c","d","e","f","g","h","i","j","k","l","m","n","o","p","q",
      "r","s","t","u","v","w","x","y","z","ç","ã","ó","é","í","â","ê","õ",
      "ú","á">>

\* The lower-case letter of each upper-case letter.
LowerMap ==
    [c \in {UpperChars[i] : i \in 1..Len(UpperChars)} |->
        LowerChars[CHOOSE i \in 1..Len(UpperChars) : UpperChars[i] = c]]

LowerChar(c) == IF c \in DOMAIN LowerMap THEN LowerMap[c] ELSE c

\* str.lower()
Lower(s) == [i \in 1..Len(s) |-> LowerChar(s[i])]

\* str.endswith(suffix)
EndsWith(s, suffix) ==
    /\ Len(suffix) <= Len(s)
    /\ SubSeq(s, Len(s) - Len(suffix) + 1, Len(s)) = suffix

\* needle in s
Contains(s, needle) ==
    \E i \in 0..(Len(s) - Len(needle)) : SubSeq(s, i + 1, i + Len(needle)) = needle

RECURSIVE LStrip(_)
LStrip(s) == IF s # <<>> /\ Head(s) = " " THEN LStrip(Tail(s)) ELSE s

RECURSIVE RStrip(_)
RStrip(s) ==
    IF s # <<>> /\ s[Len(s)] = " " THEN RStrip(SubSeq(s, 1, Len(s) - 1)) ELSE s

\* str.strip()
Strip(s) == RStrip(LStrip(s))

Digits == <<"0","1","2","3","4","5","6","7","8","9">>

RECURSIVE IntToStr(_)
\* str(int(n)), n >= 0
IntToStr(n) ==
    IF n < 10 THEN <<Digits[n + 1]>>
    ELSE IntToStr(n \div 10) \o <<Digits[(n % 10) + 1]>>

-----------------------------------------------------------------------------
(* Configuration *)

BASE_PAGE == "https://portaldatransparencia.gov.br/download-de-dados/orcamento-despesa"
DEFAULT_YEAR == 2026
TTL == 60 * 60 * 24

\* The years the user types into the number input.
Years == {DEFAULT_YEAR - 1, DEFAULT_YEAR}

\* fonte_url = f"{BASE_PAGE}/{int(ano)}"
FonteUrl(y) == <<BASE_PAGE, "/", IntToStr(y)>>

\* csv_name_expected = f"{int(ano)}_OrcamentoDespesa.csv"
CsvNameExpected(y) ==
    IntToStr(y) \o <<"_","O","r","c","a","m","e","n","t","o","D","e","s","p","e",
                     "s","a",".","c","s","v">>

Urls == {FonteUrl(y) : y \in Years}

-----------------------------------------------------------------------------
(* CSV parsing.  The bytes of a CSV are what pd.read_csv makes of them     *)
(* under each (sep, encoding): a table, or an exception.                   *)

attempts ==
    << [sep |-> ";", encoding |-> "utf-8-sig"],
       [sep |-> ";", encoding |-> "latin-1"],
       [sep |-> ",", encoding |-> "utf-8-sig"],
       [sep |-> ",", encoding |-> "latin-1"] >>

AttemptSet == {attempts[i] : i \in 1..Len(attempts)}

\* pd.read_csv(BytesIO(csv_bytes), sep=a["sep"], encoding=a["encoding"])
read_csv(csv_bytes, a) == csv_bytes[a]

RECURSIVE ler_csv_loop_first_err(_, _, _, _)
\* The loop keeping the error of the first failed attempt.
ler_csv_loop_first_err(csv_bytes, i, tried, last_err) ==
    IF i > Len(attempts)
    THEN [ok |-> FALSE, tried |-> tried,
          err |-> <<"RuntimeError", "Falha ao ler CSV. Último erro: ", last_err>>]
    ELSE LET a == attempts[i]
             r == read_csv(csv_bytes, a)
         IN  IF r.ok
             THEN [ok |-> TRUE, tried |-> Append(tried, a), df |-> r.df]
             ELSE ler_csv_loop_first_err(csv_bytes, i + 1, Append(tried, a),
                                         IF last_err = None THEN Some(r.err) ELSE last_err)

RECURSIVE ler_csv_loop(_, _, _, _)
ler_csv_loop(csv_bytes, i, tried, last_err) ==
    IF i > Len(attempts)
    THEN [ok |-> FALSE, tried |-> tried,
          err |-> <<"RuntimeError", "Falha ao ler CSV. Último erro: ", last_err>>]
    ELSE LET a == attempts[i]
             r == read_csv(csv_bytes, a)
         IN  IF r.ok
             THEN [ok |-> TRUE, tried |-> Append(tried, a), df |-> r.df]
             ELSE ler_csv_loop(csv_bytes, i + 1, Append(tried, a), Some(r.err))

\* tried: the read_csv calls made, in order
ler_csv(csv_bytes) == ler_csv_loop(csv_bytes, 1, <<>>, None)

-----------------------------------------------------------------------------
(* ZIP archives.  What zipfile makes of the bytes of a download: an archive *)
(* z, a sequence of members [name, date_time, data], or (z.zip false)      *)
(* something it cannot open.                                               *)

\* z.namelist()
namelist(z) == [i \in 1..Len(z.members) |-> z.members[i].name]

InSeq(x, s) == \E i \in 1..Len(s) : s[i] = x

\* z.getinfo(name): zipfile keeps, for a name, the last member that has it
getinfo(z, name) ==
    z.members[CHOOSE i \in 1..Len(z.members) :
                  /\ z.members[i].name = name
                  /\ \A j \in (i + 1)..Len(z.members) : z.members[j].name # name]

BadZipFile == <<"BadZipFile", "File is not a zip file">>

listar_arquivos_zip(z) ==
    LET zip == z.zip
    IN  IF ~z.zip THEN [ok |-> FALSE, err |-> BadZipFile]
        ELSE [ok |-> TRUE, names |-> namelist(z)]

IsCsvName(n) == EndsWith(Lower(n), <<".","c","s","v">>)

\* The choice with a case-sensitive test of the extension.
chosen_case_sensitive(names, csv_name) ==
    IF InSeq(csv_name, names) THEN Some(csv_name)
    ELSE LET isCsv(n) == EndsWith(n, <<".","c","s","v">>)
             csvs == SelectSeq(names, isCsv)
         IN  IF csvs = <<>> THEN None ELSE Some(csvs[1])

\* The member extrair_csv_bytes reads: csv_name when it is a member, else
\* the first member that ends in .csv, else none.
chosen(names, csv_name) ==
    IF InSeq(csv_name, names) THEN Some(csv_name)
    ELSE LET csvs == SelectSeq(names, IsCsvName)
         IN  IF csvs = <<>> THEN None ELSE Some(csvs[1])

extrair_csv_bytes(z, csv_name) ==
    LET zip == z.zip
    IN  IF ~z.zip THEN [ok |-> FALSE, err |-> BadZipFile]
        ELSE LET ch == chosen(namelist(z), csv_name)
             IN  IF ch = None
                 THEN [ok |-> FALSE,
                       err |-> <<"RuntimeError", "Não encontrei CSV no ZIP.">>]
                 ELSE LET info == getinfo(z, ch[1])
                      IN  [ok |-> TRUE, data |-> info.data, chosen |-> ch[1],
                           dt_mod |-> info.date_time]

-----------------------------------------------------------------------------
(* Tables.  A DataFrame is [columns, rows]; a row is a sequence of cells,  *)
(* one per column; a cell is None (NaN) or Some(string).                   *)

\* norm_col(c) = str(c).strip().lower()
norm_col(c) == Lower(Strip(c))

\* The first column whose normalised name contains must_contain, or None.
find_col(d, must_contain) ==
    LET m    == Lower(Strip(must_contain))
        hits == {i \in 1..Len(d.columns) : Contains(norm_col(d.columns[i]), m)}
    IN  IF hits = {} THEN None
        ELSE Some(d.columns[CHOOSE i \in hits : \A j \in hits : i <= j])

\* Python truth of an optional string
Truthy(o) == o # None /\ o[1] # <<>>

\* a or b
PyOr(a, b) == IF Truthy(a) THEN a ELSE b

COL_ATUALIZADO(d) ==
    find_col(d, <<"o","r","ç","a","m","e","n","t","o"," ","a","t","u","a","l",
                  "i","z","a","d","o">>)
COL_EMPENHADO(d) ==
    find_col(d, <<"o","r","ç","a","m","e","n","t","o"," ","e","m","p","e","n",
                  "h","a","d","o">>)
COL_REALIZADO(d) ==
    find_col(d, <<"o","r","ç","a","m","e","n","t","o"," ","r","e","a","l","i",
                  "z","a","d","o">>)
COL_PCT(d) ==
    find_col(d, <<"%"," ","r","e","a","l","i","z","a","d","o">>)

COL_ACAO_COD(d) ==
    PyOr(find_col(d, <<"c","ó","d","i","g","o"," ","a","ç","ã","o">>),
         find_col(d, <<"c","o","d","i","g","o"," ","a","ç","ã","o">>))
COL_GND_NOME(d) ==
    PyOr(find_col(d, <<"n","o","m","e"," ","g","r","u","p","o"," ","d","e"," ",
                       "d","e","s","p","e","s","a">>),
         find_col(d, <<"g","r","u","p","o"," ","d","e"," ","d","e","s","p","e",
                       "s","a">>))
COL_ELEM_NOME(d) ==
    PyOr(find_col(d, <<"n","o","m","e"," ","e","l","e","m","e","n","t","o"," ",
                       "d","e"," ","d","e","s","p","e","s","a">>),
         find_col(d, <<"e","l","e","m","e","n","t","o"," ","d","e"," ","d","e",
                       "s","p","e","s","a">>))
COL_FUNCAO_NOME(d) ==
    PyOr(find_col(d, <<"n","o","m","e"," ","f","u","n","ç","ã","o">>),
         find_col(d, <<"f","u","n","c","a","o">>))

\* The column detection of lines 307-318.
Detect(d) ==
    [at     |-> COL_ATUALIZADO(d), em   |-> COL_EMPENHADO(d),
     re     |-> COL_REALIZADO(d),  pct  |-> COL_PCT(d),
     acao   |-> COL_ACAO_COD(d),   gnd  |-> COL_GND_NOME(d),
     elem   |-> COL_ELEM_NOME(d),  funcao |-> COL_FUNCAO_NOME(d)]

IsNone(p) == p[2] = None

\* The names of the metric columns that were not found.
missing(c) ==
    LET absent == SelectSeq(<< <<"ORÇAMENTO ATUALIZADO (R$)", c.at>>,
                               <<"ORÇAMENTO EMPENHADO (R$)",  c.em>>,
                               <<"ORÇAMENTO REALIZADO (R$)",  c.re>>,
                               <<"% REALIZADO DO ORÇAMENTO",  c.pct>> >>, IsNone)
    IN  [i \in 1..Len(absent) |-> absent[i][1]]

\* tab1: the columns offered as dimension
dim_all(d, c) ==
    LET metrics  == {c.at, c.em, c.re, c.pct}
        other(n) == Some(n) \notin metrics
    IN  SelectSeq(d.columns, other)

\* One dimension tab: the aggregation, or a warning when its column is absent.
DimTab(tab, col) == IF ~Truthy(col) THEN {<<tab, "warning">>} ELSE {<<tab, "agg">>}

Tabs2to5(c) ==
    DimTab("acao", c.acao) \cup DimTab("gnd", c.gnd)
        \cup DimTab("elem", c.elem) \cup DimTab("funcao", c.funcao)

Tab6 == {<<"tabela", "zip_files">>, <<"tabela", "raw_table">>,
         <<"tabela", "export_csv">>, <<"tabela", "export_xlsx">>}

\* What the script puts on the page from line 302 on, df being loaded.
\* The run halts at the metric check when a metric column is absent; with no
\* dimension column at all the selectbox of tab1 yields None and build_agg
\* raises, which ends the run there.
Dashboard(d) ==
    LET c == Detect(d)
    IN  IF missing(c) # <<>>
        THEN {<<"sidebar", "filtros">>, <<"erro", "metricas">>}
        ELSE IF dim_all(d, c) = <<>>
        THEN {<<"sidebar", "filtros">>, <<"kpis", "kpis">>,
              <<"sidebar", "visualizacao">>, <<"geral", "exception">>}
        ELSE {<<"sidebar", "filtros">>, <<"kpis", "kpis">>,
              <<"sidebar", "visualizacao">>, <<"geral", "agg">>}
                 \cup Tabs2to5(c) \cup Tab6 \cup {<<"rodape", "fonte">>}

\* The part of a run after the load block (lines 298 on).
Body(d) == IF d = None THEN {<<"info", "escolha o ano">>} ELSE Dashboard(d[1])

-----------------------------------------------------------------------------
(* The file host: what a GET of a year's URL can answer.                   *)

C_ACAO   == <<"C","Ó","D","I","G","O"," ","A","Ç","Ã","O">>
C_GND    == <<"N","O","M","E"," ","G","R","U","P","O"," ","D","E"," ","D","E","S",
              "P","E","S","A">>
C_ELEM   == <<"N","O","M","E"," ","E","L","E","M","E","N","T","O"," ","D","E"," ",
              "D","E","S","P","E","S","A">>
C_FUNCAO == <<"N","O","M","E"," ","F","U","N","Ç","Ã","O">>
C_AT     == <<"O","R","Ç","A","M","E","N","T","O"," ","A","T","U","A","L","I","Z",
              "A","D","O"," ","(","R","$",")">>
C_EM     == <<"O","R","Ç","A","M","E","N","T","O"," ","E","M","P","E","N","H","A",
              "D","O"," ","(","R","$",")">>
C_RE     == <<"O","R","Ç","A","M","E","N","T","O"," ","R","E","A","L","I","Z","A",
              "D","O"," ","(","R","$",")">>
C_PCT    == <<"%"," ","R","E","A","L","I","Z","A","D","O"," ","D","O"," ","O","R",
              "Ç","A","M","E","N","T","O">>

AllColumns == <<C_ACAO, C_GND, C_ELEM, C_FUNCAO, C_AT, C_EM, C_RE, C_PCT>>

\* A one-row table with the given columns.
TableOf(columns) ==
    [columns |-> columns,
     rows    |-> << [i \in 1..Len(columns) |-> Some(<<"1",",","5","0">>)] >>]

T_full   == TableOf(AllColumns)
T_nopct  == TableOf(<<C_ACAO, C_GND, C_ELEM, C_FUNCAO, C_AT, C_EM, C_RE>>)
T_nofunc == TableOf(<<C_ACAO, C_GND, C_ELEM, C_AT, C_EM, C_RE, C_PCT>>)

\* The CSV files of the host, by content: one that read_csv reads at once,
\* Latin-1 ones (the utf-8-sig attempts fail), one that no attempt reads.
Csv_utf8(t) == [a \in AttemptSet |-> [ok |-> TRUE, df |-> t]]
Csv_latin1(t) ==
    [a \in AttemptSet |->
        IF a.encoding = "utf-8-sig" THEN [ok |-> FALSE, err |-> <<"UnicodeDecodeError", a.sep>>]
        ELSE [ok |-> TRUE, df |-> t]]
Csv_empty ==
    [a \in AttemptSet |-> [ok |-> FALSE, err |-> <<"EmptyDataError", a.sep, a.encoding>>]]

\* What pd.read_csv makes of each CSV file under each (sep, encoding).
CsvFiles ==
    [b \in {"full", "nofunc", "nopct", "empty"} |->
        CASE b = "full"   -> Csv_utf8(T_full)
          [] b = "nofunc" -> Csv_utf8(T_nofunc)
          [] b = "nopct"  -> Csv_latin1(T_nopct)
          [] b = "empty"  -> Csv_empty]

N_leiame == <<"l","e","i","a","-","m","e",".","t","x","t">>
N_outro  == <<"o","u","t","r","o",".","c","s","v">>
N_dados  == <<"d","a","d","o","s",".","C","S","V">>

Member(n, t, d) == [name |-> n, date_time |-> t, data |-> d]

\* The downloads a year's URL can hold, by content: ZIP archives (the expected
\* CSV after another one; no expected CSV; no CSV; an unreadable CSV) and a
\* body that is no ZIP.
Archive(kind, y) ==
    CASE kind = "exact" ->
           [zip |-> TRUE,
            members |-> << Member(N_leiame, <<y, 1, 2, 3, 4, 5>>, "empty"),
                           Member(N_outro, <<y, 1, 2, 3, 4, 6>>, "nofunc"),
                           Member(CsvNameExpected(y), <<y, 2, 3, 4, 5, 6>>, "full") >>]
      [] kind = "fallback" ->
           [zip |-> TRUE,
            members |-> << Member(N_leiame, <<y, 1, 2, 3, 4, 5>>, "empty"),
                           Member(N_dados, <<y, 3, 4, 5, 6, 7>>, "nopct") >>]
      [] kind = "nocsv" ->
           [zip |-> TRUE,
            members |-> << Member(N_leiame, <<y, 1, 2, 3, 4, 5>>, "empty") >>]
      [] kind = "badcsv" ->
           [zip |-> TRUE,
            members |-> << Member(CsvNameExpected(y), <<y, 5, 6, 7, 8, 9>>, "empty") >>]
      [] kind = "notzip" -> [zip |-> FALSE]

ArchiveKinds == {"exact", "fallback", "nocsv", "badcsv", "notzip"}

\* The bytes of a download are named <<kind, year>>, the bytes of a member by
\* the name of its CSV file.
Bodies(y) == {<<k, y>> : k \in ArchiveKinds}

\* What zipfile.ZipFile makes of each download.
ZipFiles == [b \in UNION {Bodies(y) : y \in Years} |-> Archive(b[1], b[2])]

ErrorStatuses == {404, 429, 500, 502, 503, 504}
Exceptions == {"ConnectTimeout", "ConnectionResetError"}

\* requests.get(url): a response, or an exception of the connection.
Responses(y) ==
    {[kind |-> "response", status |-> 200, content |-> b] : b \in Bodies(y)}
        \cup {[kind |-> "response", status |-> st, content |-> <<"notzip", y>>] : st \in ErrorStatuses}
        \cup {[kind |-> "exception", exc |-> e] : e \in Exceptions}

-----------------------------------------------------------------------------
(* Download, memoized by st.cache_data(ttl = TTL) on the url.              *)

\* baixar_zip without r.raise_for_status().
baixar_zip_body_no_raise(resp) ==
    IF resp.kind = "exception" THEN [ok |-> FALSE, err |-> <<resp.exc>>]
    ELSE [ok |-> TRUE, content |-> resp.content]

\* The body of baixar_zip: one GET, raise_for_status, the content.
baixar_zip_body(resp) ==
    IF resp.kind = "exception" THEN [ok |-> FALSE, err |-> <<resp.exc>>]
    ELSE IF resp.status >= 400 /\ resp.status < 600
    THEN [ok |-> FALSE, err |-> <<"HTTPError", resp.status>>]
    ELSE [ok |-> TRUE, content |-> resp.content]

\* What a request was answered: the status, or the exception.
Answer(resp) ==
    IF resp.kind = "exception" THEN [kind |-> "exception", exc |-> resp.exc]
    ELSE [kind |-> "response", status |-> resp.status]

\* A store that never expires an entry.
CacheHit_no_ttl(c, url, t) == c[url] # None

\* An entry is served while younger than the ttl.
CacheHit(c, url, t) == c[url] # None /\ t - c[url][1].at < TTL

\* baixar_zip(url) at time t, the server answering resp to a request:
\* [r: the result, cache: the store after the call, net: the requests issued]
baixar_zip(c, url, t, resp) ==
    IF CacheHit(c, url, t)
    THEN [r |-> [ok |-> TRUE, content |-> c[url][1].value], cache |-> c, net |-> <<>>]
    ELSE LET r == baixar_zip_body(resp)
         IN  [r     |-> r,
              cache |-> IF r.ok
                        THEN [c EXCEPT ![url] = Some([value |-> r.content, at |-> t])]
                        ELSE c,
              net   |-> << [url |-> url, answer |-> Answer(resp)] >>]

-----------------------------------------------------------------------------
(* The session: one action is one user interaction and the script run(s)   *)
(* it triggers.                                                            *)

\* The tables the host's CSV files hold, and Body tabulated over them.
HostTables == {T_full, T_nofunc, T_nopct}
PageBody == [d \in {None} \cup {Some(t) : t \in HostTables} |-> Body(d)]

TickSeconds == 43200
MaxTicks == 2

\* The value argument of the number input.
AnoDefault(carregado) ==
    IF carregado # None /\ carregado[1] # 0 THEN carregado[1] ELSE DEFAULT_YEAR

\* The number input of a run: a widget is identified by its arguments, so
\* it keeps the value the user left in it only while its default is the
\* one it was last drawn with; otherwise it is a new widget at its default.
AnoWidget(w, carregado, typed) ==
    LET d == AnoDefault(carregado)
    IN  [key   |-> d,
         value |-> IF d # w.key THEN d
                   ELSE IF typed # None THEN typed[1] ELSE w.value]

\* The banner under the title (drawn before the buttons are handled).
Banner(updated_at) == updated_at # None

NoLoad == [result |-> "none", error |-> None]

NoFields == [f \in {} |-> None]

\* The load block with csv_updated_at assigned before the CSV is read.
carregar_try_early(dl, url, y) ==
    IF ~dl.ok THEN [ok |-> FALSE, error |-> dl.err, set |-> NoFields]
    ELSE LET z  == ZipFiles[dl.content]
             zf == listar_arquivos_zip(z)
         IN  IF ~zf.ok THEN [ok |-> FALSE, error |-> zf.err, set |-> NoFields]
             ELSE LET ex == extrair_csv_bytes(z, CsvNameExpected(y))
                  IN  IF ~ex.ok THEN [ok |-> FALSE, error |-> ex.err, set |-> NoFields]
                      ELSE LET rd == ler_csv(CsvFiles[ex.data])
                           IN  IF ~rd.ok
                               THEN [ok |-> FALSE, error |-> rd.err,
                                     set |-> [csv_updated_at |-> ex.dt_mod]]
                               ELSE [ok |-> TRUE, error |-> None,
                                     set |-> [csv_updated_at |-> ex.dt_mod,
                                              df             |-> rd.df,
                                              ano_carregado  |-> y,
                                              fonte_url      |-> url,
                                              zip_files      |-> zf.names,
                                              csv_name_used  |-> ex.chosen]]

\* The load block with ano_carregado and fonte_url assigned as soon as the
\* download has succeeded.
carregar_try_url_first(dl, url, y) ==
    LET early == [ano_carregado |-> y, fonte_url |-> url]
    IN  IF ~dl.ok THEN [ok |-> FALSE, error |-> dl.err, set |-> NoFields]
        ELSE LET z  == ZipFiles[dl.content]
                 zf == listar_arquivos_zip(z)
             IN  IF ~zf.ok THEN [ok |-> FALSE, error |-> zf.err, set |-> early]
                 ELSE LET ex == extrair_csv_bytes(z, CsvNameExpected(y))
                      IN  IF ~ex.ok THEN [ok |-> FALSE, error |-> ex.err, set |-> early]
                          ELSE LET rd == ler_csv(CsvFiles[ex.data])
                               IN  IF ~rd.ok
                                   THEN [ok |-> FALSE, error |-> rd.err, set |-> early]
                                   ELSE [ok |-> TRUE, error |-> None,
                                         set |-> [csv_updated_at |-> ex.dt_mod,
                                                  df             |-> rd.df,
                                                  ano_carregado  |-> y,
                                                  fonte_url      |-> url,
                                                  zip_files      |-> zf.names,
                                                  csv_name_used  |-> ex.chosen]]

\* The try block of the load (lines 272-293): download, list, extract, read,
\* then the assignments.  [ok, error, set], set holding the session-state
\* fields assigned before the block ended, with their values.
carregar_try(dl, url, y) ==
    IF ~dl.ok THEN [ok |-> FALSE, error |-> dl.err, set |-> NoFields]
    ELSE LET z  == ZipFiles[dl.content]
             zf == listar_arquivos_zip(z)
         IN  IF ~zf.ok THEN [ok |-> FALSE, error |-> zf.err, set |-> NoFields]
             ELSE LET ex == extrair_csv_bytes(z, CsvNameExpected(y))
                  IN  IF ~ex.ok THEN [ok |-> FALSE, error |-> ex.err, set |-> NoFields]
                      ELSE LET rd == ler_csv(CsvFiles[ex.data])
                           IN  IF ~rd.ok
                               THEN [ok |-> FALSE, error |-> rd.err, set |-> NoFields]
                               ELSE [ok |-> TRUE, error |-> None,
                                     set |-> [csv_updated_at |-> ex.dt_mod,
                                              df             |-> rd.df,
                                              ano_carregado  |-> y,
                                              fonte_url      |-> url,
                                              zip_files      |-> zf.names,
                                              csv_name_used  |-> ex.chosen]]

\* A session-state field after the block.
Assigned(ld, field, old) == IF field \in DOMAIN ld.set THEN Some(ld.set[field]) ELSE old

Init ==
    /\ df = None
    /\ ano_carregado = None
    /\ fonte_url = None
    /\ zip_files = None
    /\ csv_name_used = None
    /\ csv_updated_at = None
    /\ ano = [key |-> DEFAULT_YEAR, value |-> DEFAULT_YEAR]
    /\ cache = [u \in Urls |-> None]
    /\ now = 0
    /\ page = [banner |-> FALSE, load |-> NoLoad, body |-> PageBody[None]]
    /\ net = <<>>
    /\ pc = "start"
    /\ arg = None
    /\ ret = None

\* The user clicks "Carregar": one run, the load block and then the page
\* of the state it leaves.
Carregar ==
    LET w   == AnoWidget(ano, ano_carregado, None)
        url == FonteUrl(w.value)
    IN  \E resp \in Responses(w.value) :
            LET dl == baixar_zip(cache, url, now, resp)
                ld == carregar_try(dl.r, url, w.value)
            IN  /\ cache' = dl.cache
                /\ net' = dl.net
                /\ ano' = w
                /\ pc' = "carregar"
                /\ csv_updated_at' = Assigned(ld, "csv_updated_at", csv_updated_at)
                /\ df' = Assigned(ld, "df", df)
                /\ ano_carregado' = Assigned(ld, "ano_carregado", ano_carregado)
                /\ fonte_url' = Assigned(ld, "fonte_url", fonte_url)
                /\ zip_files' = Assigned(ld, "zip_files", zip_files)
                /\ csv_name_used' = Assigned(ld, "csv_name_used", csv_name_used)
                /\ page' = [banner |-> Banner(csv_updated_at),
                            load   |-> IF ld.ok
                                       THEN [result |-> "success", error |-> None]
                                       ELSE [result |-> "error", error |-> Some(ld.error)],
                            body   |-> PageBody[df']]
                /\ UNCHANGED <<now, arg, ret>>

\* The user clicks "Limpar": the fields are reset and st.rerun() runs the
\* script again, which is the run the user sees.
Limpar ==
    LET w1 == AnoWidget(ano, ano_carregado, None)
        w2 == AnoWidget(w1, None, None)
    IN  /\ df' = None
        /\ ano_carregado' = None
        /\ fonte_url' = None
        /\ zip_files' = None
        /\ csv_name_used' = None
        /\ UNCHANGED csv_updated_at
        /\ ano' = w2
        /\ page' = [banner |-> Banner(csv_updated_at), load |-> NoLoad, body |-> PageBody[None]]
        /\ net' = <<>>
        /\ pc' = "limpar"
        /\ UNCHANGED <<cache, now, arg, ret>>

\* The user types a year into the number input.
MudarAno ==
    \E y \in Years :
        /\ ano' = AnoWidget(ano, ano_carregado, Some(y))
        /\ page' = [banner |-> Banner(csv_updated_at), load |-> NoLoad, body |-> PageBody[df]]
        /\ net' = <<>>
        /\ pc' = "ano"
        /\ UNCHANGED <<session, cache, now, arg, ret>>

\* Time passes.
Tick ==
    /\ now + TickSeconds <= MaxTicks * TickSeconds
    /\ now' = now + TickSeconds
    /\ pc' = "tick"
    /\ UNCHANGED <<session, ano, cache, page, net, arg, ret>>

Next == Carregar \/ Limpar \/ MudarAno \/ Tick

Spec == Init /\ [][Next]_vars

-----------------------------------------------------------------------------
(* Properties of the session (specification Spec).                         *)

\* The request of the step's run, when it issued one.
Requested == Len(net') = 1
Answered(kind) == net'[1].answer.kind = kind

\* The step's run is a load of url u that found no fresh entry / a fresh one.
LoadOf(u) == pc' = "carregar" /\ u = FonteUrl(ano'.value)
Fresh(u) == cache[u] # None /\ now - cache[u][1].at < TTL

\* C1: a Carregar whose load fails at any step (the download raises, the
\* body is no ZIP, the ZIP holds no CSV, no attempt reads the CSV) shows an
\* error and leaves df, ano_carregado, fonte_url, zip_files, csv_name_used
\* and csv_updated_at as they were; the page below the error is the one of
\* the dataset held before, and a load changes the state only when it
\* shows success.
C1_FailedLoadKeepsState ==
    [][ pc' = "carregar" =>
          /\ page'.load.result \in {"error", "success"}
          /\ page'.load.result = "error" =>
                /\ session' = session
                /\ page'.load.error # None
                /\ page'.body = PageBody[df]
          /\ session' # session => page'.load.result = "success"
          /\ (Requested /\ Answered("exception")) => page'.load.result = "error"
          /\ (Requested /\ Answered("response") /\ net'[1].answer.status # 200)
                => page'.load.result = "error" ]_vars

\* C1 witness: a load has failed after a dataset was loaded, at the CSV.
C1_Witness ==
    /\ pc = "carregar"
    /\ page.load.result = "error"
    /\ page.load.error[1][1] = "RuntimeError"
    /\ df # None

\* C2 as stated: a request answered with a transient fault (timeout, reset,
\* 429, 500, 502, 503, 504) is issued again by the same load.
TransientStatuses == {429, 500, 502, 503, 504}
TransientFault(a) ==
    \/ a.kind = "exception"
    \/ a.kind = "response" /\ a.status \in TransientStatuses

C2_RetriesTransient ==
    [][ (pc' = "carregar" /\ Len(net') >= 1 /\ TransientFault(net'[1].answer))
            => Len(net') >= 2 ]_vars

\* C2 amended: a load issues at most one request and never repeats it; when
\* the request meets a fault, transient or not, the load fails at once with
\* the error of that one request (the HTTP status, or the exception of the
\* connection) and stores nothing in the cache, so that only the user's next
\* click on Carregar issues the request again.
C2_SingleRequestNoRetry ==
    [][ pc' = "carregar" =>
          /\ Len(net') <= 1
          /\ (Requested /\ Answered("exception")) =>
                /\ page'.load.result = "error"
                /\ page'.load.error = Some(<<net'[1].answer.exc>>)
                /\ cache' = cache
          /\ (Requested /\ Answered("response") /\ net'[1].answer.status # 200) =>
                /\ page'.load.result = "error"
                /\ page'.load.error = Some(<<"HTTPError", net'[1].answer.status>>)
                /\ cache' = cache ]_vars

\* C2 witness: a load that met a 503 on its single request has failed, and
\* the next click will issue the request again.
C2_Witness ==
    /\ pc = "carregar"
    /\ Len(net) = 1
    /\ net[1].answer = [kind |-> "response", status |-> 503]
    /\ page.load.error = Some(<<"HTTPError", 503>>)
    /\ cache[net[1].url] = None

\* C5: the download is memoized per url for TTL seconds.  A load of a url
\* whose entry is younger than TTL issues no request, leaves the store as it
\* is and works on the stored bytes; a load of a url with no entry, or with
\* one of age TTL or more, issues one request to that url; a download that
\* succeeds stores its bytes under the url at the time of the load and one
\* that fails stores nothing; no load touches the entry of another url, and
\* Limpar, the year input and the passing of time leave the store alone.
C5_MemoizedPerUrlWithTtl ==
    [][ /\ \A u \in Urls :
              /\ (LoadOf(u) /\ Fresh(u)) =>
                    /\ net' = <<>>
                    /\ cache' = cache
                    /\ page'.load.result = "success" =>
                          zip_files' = Some(namelist(ZipFiles[cache[u][1].value]))
                    /\ ~ZipFiles[cache[u][1].value].zip =>
                          page'.load.error = Some(BadZipFile)
              /\ (LoadOf(u) /\ ~Fresh(u)) =>
                    /\ Requested
                    /\ net'[1].url = u
                    /\ IF Answered("response") /\ net'[1].answer.status = 200
                       THEN cache'[u] # None /\ cache'[u][1].at = now
                       ELSE cache' = cache
              /\ LoadOf(u) => \A v \in Urls \ {u} : cache'[v] = cache[v]
        /\ pc' # "carregar" => cache' = cache ]_vars

\* C5 witness: a load has been served from the store (no request) at a later
\* time, while the store holds an entry for every year's url.
C5_Witness ==
    /\ pc = "carregar"
    /\ net = <<>>
    /\ page.load.result = "success"
    /\ now > 0
    /\ \A u \in Urls : cache[u] # None

\* C10: after Limpar the six fields a load sets are None again, and the run
\* shows the prompt and no "data updated at" banner.
C10_LimparClearsAll ==
    pc = "limpar" =>
        /\ df = None
        /\ ano_carregado = None
        /\ fonte_url = None
        /\ zip_files = None
        /\ csv_name_used = None
        /\ csv_updated_at = None
        /\ ~page.banner
        /\ page.body = {<<"info", "escolha o ano">>}

\* A session-state value in an f-string: None prints as "None".
fstr(v) == IF v = None THEN <<"None">> ELSE v[1]

\* The caption of the footer (lines 617-620); its dash is written "--".
rodape(s_fonte_url, s_csv_name_used) ==
    <<"Fonte dos dados: ", fstr(s_fonte_url), " | CSV utilizado: ", fstr(s_csv_name_used),
      " | Portal da Transparência -- Download de dados (Orçamento/Despesa)">>

\* file_name of a download button (lines 600 and 608): int(None) raises.
export_file_name(s_ano_carregado, ext) ==
    IF s_ano_carregado = None THEN [ok |-> FALSE, err |-> <<"TypeError">>]
    ELSE [ok   |-> TRUE,
          name |-> <<"orcamento_despesa_", IntToStr(s_ano_carregado[1]), "_filtrado.", ext>>]

\* The five fields hold what a load of year y leaves when the host answers
\* with download b: the names of b, one of its members and that member's
\* table, under y and y's url.
LoadedFrom(y, b) ==
    LET z == ZipFiles[b]
    IN  /\ z.zip
        /\ ano_carregado = Some(y)
        /\ fonte_url = Some(FonteUrl(y))
        /\ zip_files = Some(namelist(z))
        /\ \E i \in 1..Len(z.members) :
               LET rd == ler_csv(CsvFiles[z.members[i].data])
               IN  /\ csv_name_used = Some(z.members[i].name)
                   /\ rd.ok
                   /\ df = Some(rd.df)

FooterShown == <<"rodape", "fonte">> \in page.body
ExportShown == {<<"tabela", "export_csv">>, <<"tabela", "export_xlsx">>} \subseteq page.body

\* C11: df, ano_carregado, fonte_url, zip_files and csv_name_used are all
\* None or all left by one successful load; the page is the dashboard only
\* when df is set, and then the footer's source url and CSV name and the
\* export buttons' file names are those of that load's year, whatever year
\* the number input holds.
C11_FieldsOfOneLoad ==
    /\ \/ /\ df = None
          /\ ano_carregado = None
          /\ fonte_url = None
          /\ zip_files = None
          /\ csv_name_used = None
       \/ \E y \in Years : \E b \in Bodies(y) : LoadedFrom(y, b)
    /\ (FooterShown \/ ExportShown \/ page.body # PageBody[None]) => df # None
    /\ df # None =>
           /\ ano_carregado # None
           /\ page.body = PageBody[df]
           /\ \E y \in Years : \E b \in Bodies(y) :
                  /\ LoadedFrom(y, b)
                  /\ rodape(fonte_url, csv_name_used)[2] = FonteUrl(y)
                  /\ InSeq(rodape(fonte_url, csv_name_used)[4], namelist(ZipFiles[b]))
                  /\ \A ext \in {"csv", "xlsx"} :
                         /\ export_file_name(ano_carregado, ext).ok
                         /\ export_file_name(ano_carregado, ext).name[2] = IntToStr(y)

\* C11 witness: the dashboard of a loaded year is on the page, footer and
\* export buttons drawn, after a load of the other year, typed into the
\* number input, has failed.
C11_Witness ==
    /\ pc = "carregar"
    /\ page.load.result = "error"
    /\ df # None
    /\ FooterShown
    /\ ExportShown
    /\ ano.value # ano_carregado[1]

-----------------------------------------------------------------------------
(* The functions on their own: a specification per function draws the      *)
(* input (arg) from a bounded set and applies the function (ret).          *)

\* The session as the script leaves it before any interaction.
Idle ==
    /\ df = None
    /\ ano_carregado = None
    /\ fonte_url = None
    /\ zip_files = None
    /\ csv_name_used = None
    /\ csv_updated_at = None
    /\ ano = [key |-> DEFAULT_YEAR, value |-> DEFAULT_YEAR]
    /\ cache = [u \in Urls |-> None]
    /\ now = 0
    /\ page = [banner |-> FALSE, load |-> NoLoad, body |-> PageBody[None]]
    /\ net = <<>>

idle == <<df, ano_carregado, fonte_url, zip_files, csv_name_used,
          csv_updated_at, ano, cache, now, page, net>>

RECURSIVE SeqsUpTo(_, _)
\* The sequences over S of length at most n.
SeqsUpTo(S, n) ==
    IF n = 0 THEN {<<>>}
    ELSE LET shorter == SeqsUpTo(S, n - 1)
         IN  shorter \cup {Append(q, x) : q \in {r \in shorter : Len(r) = n - 1}, x \in S}

(* extrair_csv_bytes *)

MaxMembers == 3

N_lower  == <<"2","0","2","6","_","o","r","c","a","m","e","n","t","o","d","e","s",
              "p","e","s","a",".","c","s","v">>
N_bak    == <<"a",".","c","s","v",".","b","a","k">>
N_csvdir == <<"c","s","v","/">>

MemberNames ==
    {N_leiame, N_outro, N_dados, N_lower, N_bak, N_csvdir}
        \cup {CsvNameExpected(y) : y \in Years}

\* An archive of the given names; a member's bytes and time tell its place.
ArchiveOfNames(names) ==
    [zip |-> TRUE,
     members |-> [i \in 1..Len(names) |-> Member(names[i], <<DEFAULT_YEAR, 1, i, 0, 0, 0>>, i)]]

InitZip ==
    /\ Idle
    /\ pc = "call"
    /\ arg \in {[z |-> z, csv_name |-> CsvNameExpected(y)] :
                   z \in {ArchiveOfNames(n) : n \in SeqsUpTo(MemberNames, MaxMembers)}
                            \cup {[zip |-> FALSE]},
                   y \in Years}
    /\ ret = None

ExtrairCsvBytes ==
    /\ pc = "call"
    /\ ret' = Some(extrair_csv_bytes(arg.z, arg.csv_name))
    /\ pc' = "done"
    /\ UNCHANGED <<idle, arg>>

NextZip == ExtrairCsvBytes

SpecZip == InitZip /\ [][NextZip]_vars

\* The places of the members whose lower-cased name ends in ".csv".
CsvPlaces(names) ==
    {i \in 1..Len(names) : EndsWith(Lower(names[i]), <<".","c","s","v">>)}

\* C3: for every list of member names, extrair_csv_bytes returns the
\* expected name when it is among the names (exact match); otherwise the
\* name of the first member, in archive order, whose lower-cased name ends
\* in ".csv"; with no such member it raises and returns nothing.  The bytes
\* and the time returned are those of a member that bears the name returned.
C3_MemberSelection ==
    (pc = "done" /\ arg.z.zip) =>
        LET names == [i \in 1..Len(arg.z.members) |-> arg.z.members[i].name]
            r     == ret[1]
        IN  /\ (\E i \in 1..Len(names) : names[i] = arg.csv_name) =>
                    r.ok /\ r.chosen = arg.csv_name
            /\ ((\A i \in 1..Len(names) : names[i] # arg.csv_name)
                    /\ CsvPlaces(names) # {}) =>
                    /\ r.ok
                    /\ r.chosen = names[CHOOSE i \in CsvPlaces(names) :
                                            \A j \in CsvPlaces(names) : i <= j]
            /\ ((\A i \in 1..Len(names) : names[i] # arg.csv_name)
                    /\ CsvPlaces(names) = {}) =>
                    /\ ~r.ok
                    /\ DOMAIN r = {"ok", "err"}
                    /\ r.err[1] = "RuntimeError"
            /\ r.ok => \E i \in 1..Len(names) :
                            /\ arg.z.members[i].name = r.chosen
                            /\ arg.z.members[i].data = r.data
                            /\ arg.z.members[i].date_time = r.dt_mod

\* C3 witness: with the expected name absent, the member chosen is an
\* upper-case ".CSV" one that comes after a member that is no CSV.
C3_Witness ==
    /\ pc = "done"
    /\ arg.z.zip
    /\ Len(arg.z.members) >= 2
    /\ arg.z.members[1].name = N_bak
    /\ ret[1].ok
    /\ ret[1].chosen = N_dados
    /\ ret[1].data = 2

(* ler_csv *)

MaxErrs == 2

\* What read_csv can make of some bytes under one attempt: a table (the one
\* that reading with this separator and encoding gives), or an error.
ReadOutcomes(a) ==
    {[ok |-> TRUE, df |-> [columns |-> <<a.sep, a.encoding>>, rows |-> <<>>]]}
        \cup {[ok |-> FALSE, err |-> <<"ParserError", e>>] : e \in 1..MaxErrs}

InitCsv ==
    /\ Idle
    /\ pc = "call"
    /\ arg \in {f \in [AttemptSet -> UNION {ReadOutcomes(a) : a \in AttemptSet}] :
                   \A a \in AttemptSet : f[a] \in ReadOutcomes(a)}
    /\ ret = None

LerCsv ==
    /\ pc = "call"
    /\ ret' = Some(ler_csv(arg))
    /\ pc' = "done"
    /\ UNCHANGED <<idle, arg>>

NextCsv == LerCsv

SpecCsv == InitCsv /\ [][NextCsv]_vars

\* The four combinations in the order of the claim.
C4_Order ==
    << [sep |-> ";", encoding |-> "utf-8-sig"], [sep |-> ";", encoding |-> "latin-1"],
       [sep |-> ",", encoding |-> "utf-8-sig"], [sep |-> ",", encoding |-> "latin-1"] >>

\* C4: ler_csv tries (';', utf-8-sig), (';', latin-1), (',', utf-8-sig),
\* (',', latin-1) in this order; it returns the table of the first
\* combination that parses and tries none after it; it raises only after
\* all four have failed, naming the error of the fourth attempt.
C4_FirstSuccessInOrder ==
    pc = "done" =>
        LET r    == ret[1]
            good == {i \in 1..4 : arg[C4_Order[i]].ok}
        IN  IF good # {}
            THEN LET k == CHOOSE i \in good : \A j \in good : i <= j
                 IN  /\ r.ok
                     /\ r.df = arg[C4_Order[k]].df
                     /\ r.tried = SubSeq(C4_Order, 1, k)
            ELSE /\ ~r.ok
                 /\ r.tried = C4_Order
                 /\ r.err[1] = "RuntimeError"
                 /\ r.err[3] = Some(arg[C4_Order[4]].err)

\* C4 witness: all four attempts have failed, the fourth with an error of its
\* own, and the failure raised names it.
C4_Witness ==
    /\ pc = "done"
    /\ ~ret[1].ok
    /\ Len(ret[1].tried) = 4
    /\ arg[C4_Order[1]].err # arg[C4_Order[4]].err
    /\ ret[1].err[3] = Some(arg[C4_Order[4]].err)

(* The dashboard of a loaded table *)

C_ORGAO == <<"N","O","M","E"," ","Ó","R","G","Ã","O"," ","S","U","P","E","R","I","O","R">>

RECURSIVE SubSeqs(_)
\* The sub-sequences of s.
SubSeqs(s) ==
    IF s = <<>> THEN {<<>>}
    ELSE LET rest == SubSeqs(Tail(s))
         IN  rest \cup {<<Head(s)>> \o r : r \in rest}

\* The tables loaded: the column of the superior body, and any of the four
\* dimension and four metric columns.
InitRender ==
    /\ Idle
    /\ pc = "call"
    /\ arg \in {TableOf(<<C_ORGAO>> \o cols) : cols \in SubSeqs(AllColumns)}
    /\ ret = None

\* A run of the script with arg as st.session_state.df, from line 298 on.
RenderDashboard ==
    /\ pc = "call"
    /\ ret' = Some(Body(Some(arg)))
    /\ pc' = "done"
    /\ UNCHANGED <<idle, arg>>

NextRender == RenderDashboard

SpecRender == InitRender /\ [][NextRender]_vars

Has(c) == \E i \in 1..Len(arg.columns) : arg.columns[i] = c

C6_Tabs == {<<"acao", C_ACAO>>, <<"gnd", C_GND>>, <<"elem", C_ELEM>>, <<"funcao", C_FUNCAO>>}

\* With the four metric columns present, each dimension tab shows its
\* aggregation, or a warning when its column is absent, and the rest of the
\* page (KPIs, overview, raw table, exports, footer) is produced.
C6_OptionalDimension ==
    (pc = "done" /\ Has(C_AT) /\ Has(C_EM) /\ Has(C_RE) /\ Has(C_PCT)) =>
        /\ \A t \in C6_Tabs :
              /\ Has(t[2]) => <<t[1], "agg">> \in ret[1] /\ <<t[1], "warning">> \notin ret[1]
              /\ ~Has(t[2]) => <<t[1], "warning">> \in ret[1] /\ <<t[1], "agg">> \notin ret[1]
        /\ {<<"kpis", "kpis">>, <<"geral", "agg">>, <<"tabela", "raw_table">>,
            <<"tabela", "export_csv">>, <<"tabela", "export_xlsx">>,
            <<"rodape", "fonte">>} \subseteq ret[1]

\* C6: when a metric column (atualizado, empenhado, realizado, % realizado)
\* is absent the run reports that the aggregation could not be built and
\* still shows the raw (filtered) table; when only a dimension column is
\* absent, its tab alone is replaced by a warning.
C6_SchemaDrift ==
    /\ (pc = "done" /\ ~(Has(C_AT) /\ Has(C_EM) /\ Has(C_RE) /\ Has(C_PCT))) =>
          /\ <<"erro", "metricas">> \in ret[1]
          /\ <<"tabela", "raw_table">> \in ret[1]
    /\ C6_OptionalDimension

-----------------------------------------------------------------------------
(* Numbers.  A float is kept exactly, as the decimal fraction num / den    *)
(* with den a power of ten and no common factor ten; NaN is None.          *)

\* The no-break space, U+00A0.
NBSP == "nbsp"

RECURSIVE Replace(_, _, _)
\* str.replace(pat, rep, regex=False): one pass, left to right
Replace(s, pat, rep) ==
    IF Len(s) < Len(pat) THEN s
    ELSE IF SubSeq(s, 1, Len(pat)) = pat
    THEN rep \o Replace(SubSeq(s, Len(pat) + 1, Len(s)), pat, rep)
    ELSE <<Head(s)>> \o Replace(Tail(s), pat, rep)

DigitValue == [c \in {Digits[i] : i \in 1..10} |-> (CHOOSE i \in 1..10 : Digits[i] = c) - 1]

IsDigits(s) == \A i \in 1..Len(s) : s[i] \in DOMAIN DigitValue

RECURSIVE StrToNat(_)
StrToNat(s) ==
    IF s = <<>> THEN 0
    ELSE 10 * StrToNat(SubSeq(s, 1, Len(s) - 1)) + DigitValue[s[Len(s)]]

RECURSIVE Pow10(_)
Pow10(n) == IF n = 0 THEN 1 ELSE 10 * Pow10(n - 1)

RECURSIVE Norm(_)
Norm(x) ==
    IF x.num = 0 THEN [num |-> 0, den |-> 1]
    ELSE IF x.den > 1 /\ x.num % 10 = 0 THEN Norm([num |-> x.num \div 10, den |-> x.den \div 10])
    ELSE x

Num(n, d) == Norm([num |-> n, den |-> d])
Zero == Num(0, 1)

Max(a, b) == IF a >= b THEN a ELSE b

Add(x, y) ==
    LET d == Max(x.den, y.den)
    IN  Num(x.num * (d \div x.den) + y.num * (d \div y.den), d)

Leq(x, y) == x.num * y.den <= y.num * x.den

\* An unsigned decimal literal: digits with at most one point among them.
UnsignedValue(s) ==
    LET dots == {i \in 1..Len(s) : s[i] = "."}
    IN  IF dots = {}
        THEN IF s # <<>> /\ IsDigits(s) THEN Some(Num(StrToNat(s), 1)) ELSE None
        ELSE IF Cardinality(dots) > 1 THEN None
        ELSE LET p    == CHOOSE i \in dots : TRUE
                 int  == SubSeq(s, 1, p - 1)
                 frac == SubSeq(s, p + 1, Len(s))
             IN  IF IsDigits(int) /\ IsDigits(frac) /\ Len(int) + Len(frac) > 0
                 THEN Some(Num(StrToNat(int \o frac), Pow10(Len(frac))))
                 ELSE None

\* pd.to_numeric(x, errors="coerce") of one string: the number of a decimal
\* literal with an optional sign, NaN for anything else (and for "" and "nan").
to_numeric(x) ==
    IF x # <<>> /\ Head(x) \in {"-", "+"}
    THEN LET u == UnsignedValue(Tail(x))
         IN  IF u = None THEN None
             ELSE IF Head(x) = "-" THEN Some(Num(0 - u[1].num, u[1].den)) ELSE u
    ELSE UnsignedValue(x)

\* Series.astype(str) of one cell
astype_str(cell) == IF cell = None THEN <<"n","a","n">> ELSE cell[1]

\* The cleaning chain of parse_brl_number_series on one cell (lines 103-109).
brl_clean(cell) ==
    Strip(Replace(Replace(Replace(Replace(Replace(astype_str(cell),
        <<NBSP>>, <<>>), <<"R", "$">>, <<>>), <<" ">>, <<>>), <<".">>, <<>>), <<",">>, <<".">>))

\* The chain reading "." as the decimal point (no "." and "," handling).
parse_brl_number_series_us(s) ==
    [i \in 1..Len(s) |->
        to_numeric(Strip(Replace(Replace(Replace(astype_str(s[i]),
            <<NBSP>>, <<>>), <<"R", "$">>, <<>>), <<" ">>, <<>>)))]

parse_brl_number_series(s) == [i \in 1..Len(s) |-> to_numeric(brl_clean(s[i]))]

\* Series.fillna(0)
fillna0(s) == [i \in 1..Len(s) |-> IF s[i] = None THEN Zero ELSE s[i][1]]

pct_clean(cell) ==
    Strip(Replace(Replace(Replace(Replace(Replace(astype_str(cell),
        <<NBSP>>, <<>>), <<"%">>, <<>>), <<" ">>, <<>>), <<".">>, <<>>), <<",">>, <<".">>))

\* parse_percent_series: fractions (all values at most 1.5) are scaled to
\* percent.
parse_percent_series(s) ==
    LET out   == [i \in 1..Len(s) |-> to_numeric(pct_clean(s[i]))]
        notna == {i \in 1..Len(s) : out[i] # None}
    IN  IF notna # {} /\ \A i \in notna : Leq(out[i][1], Num(15, 10))
        THEN [i \in 1..Len(s) |->
                 IF out[i] = None THEN None
                 ELSE Some(Num(out[i][1].num * 100, out[i][1].den))]
        ELSE out

\* df[name]: the cells of a column
ColumnOf(d, name) ==
    LET j == CHOOSE k \in 1..Len(d.columns) : d.columns[k] = name
    IN  [i \in 1..Len(d.rows) |-> d.rows[i][j]]

\* dfm (lines 378-382): the filtered table with the four numeric columns.
MakeDfm(df_f) ==
    LET c   == Detect(df_f)
        at  == fillna0(parse_brl_number_series(ColumnOf(df_f, c.at[1])))
        em  == fillna0(parse_brl_number_series(ColumnOf(df_f, c.em[1])))
        re  == fillna0(parse_brl_number_series(ColumnOf(df_f, c.re[1])))
        pct == fillna0(parse_percent_series(ColumnOf(df_f, c.pct[1])))
    IN  [columns |-> df_f.columns,
         rows    |-> [i \in 1..Len(df_f.rows) |->
                         [cells |-> df_f.rows[i], _atualizado |-> at[i],
                          _empenhado |-> em[i], _realizado |-> re[i], _pct |-> pct[i]]]]

(* parse_brl_number_series and dfm *)

MaxSeriesLen == 2
MaxCellLen == 3

Cell_milhoes == <<"1",".","2","3","4",".","5","6","7",",","8","9">>
Cell_reais   == <<"R","$"," ","1","0",",","0","0">>
Cell_abc     == <<"a","b","c">>
Cell_virg    == <<"1",",","2",",","3">>
Cell_neg     == <<"-","3",",","2","0">>

ExampleCells ==
    {Some(Cell_milhoes), Some(Cell_reais), Some(Cell_abc), Some(Cell_virg),
     Some(Cell_neg), None}

CellChars == {"1", "0", ",", ".", "R", "$", " ", "-", NBSP}

\* The money columns read: series of example cells, and one-cell series of
\* every short string over CellChars.
SeriesPool ==
    SeqsUpTo(ExampleCells, MaxSeriesLen)
        \cup {<<Some(c)>> : c \in SeqsUpTo(CellChars, MaxCellLen)}

\* A filtered table whose three money columns hold the series s.
MoneyTable(s) ==
    [columns |-> <<C_ACAO, C_AT, C_EM, C_RE, C_PCT>>,
     rows    |-> [i \in 1..Len(s) |-> <<Some(<<"A">>), s[i], s[i], s[i], Some(<<"5","0">>)>>]]

InitParse ==
    /\ Idle
    /\ pc = "call"
    /\ arg \in {MoneyTable(s) : s \in SeriesPool}
    /\ ret = None

\* Lines 378-382 on arg as df_f: out is the parse of the first money column
\* before fillna, dfm the metrics table.
PrepareDfm ==
    /\ pc = "call"
    /\ ret' = Some([out |-> parse_brl_number_series(ColumnOf(arg, C_AT)),
                    dfm |-> MakeDfm(arg)])
    /\ pc' = "done"
    /\ UNCHANGED <<idle, arg>>

NextParse == PrepareDfm

SpecParse == InitParse /\ [][NextParse]_vars

C9_Count(str, chars) == Cardinality({i \in 1..Len(str) : str[i] \in chars})
C9_DigitChars == {"0","1","2","3","4","5","6","7","8","9"}
C9_NotIn(str, chars) == SelectSeq(str, LAMBDA c : c \notin chars)

\* C9: parse_brl_number_series gives one value per input row: the number
\* read with "." as thousands separator and "," as decimal separator, "R$"
\* and spaces dropped ("1.234.567,89" is 1234567.89, "R$ 10,00" is 10), and
\* null for a string that is no such number (a foreign character, several
\* commas, no digit, an empty cell); the metrics table has the rows of the
\* filtered table, in order, with 0 where the value is null.
C9_MonetaryCoercion ==
    pc = "done" =>
        LET s   == [i \in 1..Len(arg.rows) |-> arg.rows[i][2]]
            out == ret[1].out
            dfm == ret[1].dfm
        IN  /\ Len(out) = Len(s)
            /\ \A i \in 1..Len(s) :
                  /\ out[i] = None \/ DOMAIN out[i][1] = {"num", "den"}
                  /\ s[i] = Some(Cell_milhoes) => out[i] = Some([num |-> 123456789, den |-> 100])
                  /\ s[i] = Some(Cell_reais) => out[i] = Some([num |-> 10, den |-> 1])
                  /\ s[i] = None => out[i] = None
                  /\ s[i] # None =>
                        LET str == s[i][1]
                        IN  /\ C9_Count(str, C9_DigitChars) = 0 => out[i] = None
                            /\ C9_Count(str, {","}) > 1 => out[i] = None
                            /\ C9_Count(str, C9_DigitChars \cup {",", ".", " ", "R", "$",
                                                               "-", "+", NBSP}) < Len(str)
                                  => out[i] = None
                            /\ (C9_Count(str, C9_DigitChars \cup {",", "."}) = Len(str)
                                    /\ C9_Count(str, C9_DigitChars) > 0
                                    /\ C9_Count(str, {","}) <= 1) =>
                                  LET ds    == C9_NotIn(str, {",", "."})
                                      comma == {k \in 1..Len(str) : str[k] = ","}
                                      after == IF comma = {} THEN 0
                                               ELSE C9_Count(SubSeq(str, (CHOOSE k \in comma : TRUE) + 1,
                                                                    Len(str)), C9_DigitChars)
                                  IN  /\ out[i] # None
                                      /\ out[i][1] = Norm([num |-> StrToNat(ds), den |-> Pow10(after)])
            /\ Len(dfm.rows) = Len(arg.rows)
            /\ \A i \in 1..Len(arg.rows) :
                  /\ dfm.rows[i].cells = arg.rows[i]
                  /\ dfm.rows[i]._atualizado = IF out[i] = None THEN Zero ELSE out[i][1]
                  /\ dfm.rows[i]._realizado = dfm.rows[i]._atualizado

\* C9 witness: a two-row column, "R$ 10,00" and an unparseable string, has
\* been read as 10 and null, and both rows are in the metrics table.
C9_Witness ==
    /\ pc = "done"
    /\ Len(arg.rows) = 2
    /\ arg.rows[1][2] = Some(Cell_reais)
    /\ arg.rows[2][2] = Some(Cell_abc)
    /\ ret[1].out = <<Some([num |-> 10, den |-> 1]), None>>
    /\ Len(ret[1].dfm.rows) = 2

-----------------------------------------------------------------------------
(* Aggregation *)

\* The characters in code-point order.
Collation ==
    <<" ", "$", "%", "(", ")", ",", "-", ".", "/">> \o Digits
        \o SubSeq(UpperChars, 1, 26) \o <<"_">> \o SubSeq(LowerChars, 1, 26)
        \o <<NBSP, "Á", "Â", "Ã", "Ç", "É", "Ê", "Í", "Ó", "Õ", "Ú",
             "á", "â", "ã", "ç", "é", "ê", "í", "ó", "õ", "ú">>

CodePoint == [c \in {Collation[i] : i \in 1..Len(Collation)} |->
                 CHOOSE i \in 1..Len(Collation) : Collation[i] = c]

RECURSIVE StrLess(_, _)
\* a < b on strings
StrLess(a, b) ==
    IF b = <<>> THEN FALSE
    ELSE IF a = <<>> THEN TRUE
    ELSE IF Head(a) = Head(b) THEN StrLess(Tail(a), Tail(b))
    ELSE CodePoint[Head(a)] < CodePoint[Head(b)]

\* The order of the group keys: strings in their order, NaN last.
KeyLess(a, b) ==
    IF a = None THEN FALSE
    ELSE IF b = None THEN TRUE
    ELSE StrLess(a[1], b[1])

RECURSIVE SortKeys(_)
SortKeys(K) ==
    IF K = {} THEN <<>>
    ELSE LET k == CHOOSE x \in K : \A y \in K \ {x} : KeyLess(x, y)
         IN  <<k>> \o SortKeys(K \ {k})

RECURSIVE SumSeq(_)
\* Series.sum()
SumSeq(q) == IF q = <<>> THEN Zero ELSE Add(SumSeq(SubSeq(q, 1, Len(q) - 1)), q[Len(q)])

\* The places of a set of rows, in row order.
RECURSIVE InOrder(_)
InOrder(I) ==
    IF I = {} THEN <<>>
    ELSE LET i == CHOOSE x \in I : \A y \in I : x <= y
         IN  <<i>> \o InOrder(I \ {i})

\* tmp.groupby(dim_col, dropna=...).agg(sum, sum, sum, mean).reset_index():
\* one row per key, keys in order; rows names the rows of tmp summed (it is
\* no column of the frame); pct is the mean, sum / n.
groupby(tmp, dropna) ==
    LET all  == {tmp[i].dim : i \in 1..Len(tmp)}
        keys == SortKeys(IF dropna THEN all \ {None} ELSE all)
        grp(k) ==
            LET idx == InOrder({i \in 1..Len(tmp) : tmp[i].dim = k})
            IN  [dim        |-> k,
                 rows       |-> {idx[n] : n \in 1..Len(idx)},
                 atualizado |-> SumSeq([n \in 1..Len(idx) |-> tmp[idx[n]].atualizado]),
                 empenhado  |-> SumSeq([n \in 1..Len(idx) |-> tmp[idx[n]].empenhado]),
                 realizado  |-> SumSeq([n \in 1..Len(idx) |-> tmp[idx[n]].realizado]),
                 pct        |-> [sum |-> SumSeq([n \in 1..Len(idx) |-> tmp[idx[n]].pct]),
                                 n   |-> Len(idx)]]
    IN  [n \in 1..Len(keys) |-> grp(keys[n])]

\* The groupby with pandas' default, dropna=True.
groupby_agg_dropna(tmp) == groupby(tmp, TRUE)

\* tmp.groupby(dim_col, dropna=False).agg(...).reset_index() (lines 494-499)
groupby_agg(tmp) == groupby(tmp, FALSE)

\* agg["dim"].astype(str).replace({"": "(vazio)"})
DimLabel(k) ==
    IF astype_str(k) = <<>> THEN <<"(","v","a","z","i","o",")">> ELSE astype_str(k)

RECURSIVE InsertAsc(_, _)
InsertAsc(sorted, g) ==
    IF sorted = <<>> THEN <<g>>
    ELSE IF Leq(Head(sorted).realizado, g.realizado)
    THEN <<Head(sorted)>> \o InsertAsc(Tail(sorted), g)
    ELSE <<g>> \o sorted

RECURSIVE SortAsc(_)
\* agg.sort_values("realizado"): ascending, the default
SortAsc(agg) ==
    IF agg = <<>> THEN <<>>
    ELSE InsertAsc(SortAsc(SubSeq(agg, 1, Len(agg) - 1)), agg[Len(agg)])

RECURSIVE InsertDesc(_, _)
\* g put after the rows whose realizado is not smaller
InsertDesc(sorted, g) ==
    IF sorted = <<>> THEN <<g>>
    ELSE IF Leq(g.realizado, Head(sorted).realizado)
    THEN <<Head(sorted)>> \o InsertDesc(Tail(sorted), g)
    ELSE <<g>> \o sorted

RECURSIVE SortDesc(_)
\* agg.sort_values("realizado", ascending=False); rows of equal realizado
\* keep their order, as they do for frames this small
SortDesc(agg) ==
    IF agg = <<>> THEN <<>>
    ELSE InsertDesc(SortDesc(SubSeq(agg, 1, Len(agg) - 1)), agg[Len(agg)])

\* DataFrame.head(n)
head(agg, n) == SubSeq(agg, 1, IF n < Len(agg) THEN n ELSE Len(agg))

\* build_agg(dim_col), reading the globals dfm, mostrar_tudo and limite_n.
build_agg(dfm, dim_col, mostrar_tudo, limite_n) ==
    LET j   == CHOOSE k \in 1..Len(dfm.columns) : dfm.columns[k] = dim_col
        tmp == [i \in 1..Len(dfm.rows) |->
                   [dim        |-> dfm.rows[i].cells[j],
                    atualizado |-> dfm.rows[i]._atualizado,
                    empenhado  |-> dfm.rows[i]._empenhado,
                    realizado  |-> dfm.rows[i]._realizado,
                    pct        |-> dfm.rows[i]._pct]]
        agg == groupby_agg(tmp)
        lab == [n \in 1..Len(agg) |-> [agg[n] EXCEPT !.dim = DimLabel(agg[n].dim)]]
        srt == SortDesc(lab)
    IN  IF ~mostrar_tudo THEN head(srt, limite_n) ELSE srt

\* The KPI totals (lines 385-387).
total_at(dfm) == SumSeq([i \in 1..Len(dfm.rows) |-> dfm.rows[i]._atualizado])
total_em(dfm) == SumSeq([i \in 1..Len(dfm.rows) |-> dfm.rows[i]._empenhado])
total_re(dfm) == SumSeq([i \in 1..Len(dfm.rows) |-> dfm.rows[i]._realizado])

(* build_agg on a metrics table *)

MaxRows == 6
MaxLimite == 5
MaxRuns == 2

\* limite_n: the number input starts at 5 (min_value).
MinLimite == 5
Limites == MinLimite..MaxLimite

\* The values of the dimension column, the first ones first: a table of k
\* distinct values holds the first k.
DimPool ==
    << Some(<<"B">>), None, Some(<<>>), Some(<<"A">>), Some(<<"C","1">>),
       Some(<<"C">>), Some(<<"a">>), Some(<<"D">>) >>

\* The numeric columns of a row: _atualizado, _empenhado, _realizado, _pct.
MetricPool ==
    { [at |-> Num(105, 10), em |-> Num(5, 1), re |-> Num(5, 1), pct |-> Num(50, 1)],
      [at |-> Num(2, 1), em |-> Num(15, 10), re |-> Num(25, 100), pct |-> Num(125, 10)] }

RECURSIVE MaxOf(_)
MaxOf(q) == IF q = <<>> THEN 0 ELSE Max(MaxOf(Tail(q)), Head(q))

RECURSIVE DimChoices(_)
\* The ways n rows fall into groups: row by row, the value of an earlier
\* row or the next value of DimPool.
DimChoices(n) ==
    IF n = 0 THEN {<<>>}
    ELSE UNION {{Append(q, k) : k \in 1..(IF MaxOf(q) < Len(DimPool) THEN MaxOf(q) + 1
                                          ELSE Len(DimPool))} :
                   q \in DimChoices(n - 1)}

\* The numeric columns of n rows: rows of equal values come in at most
\* MaxRuns runs.
MetricChoices(n) ==
    {m \in [1..n -> MetricPool] :
        Cardinality({i \in 1..(n - 1) : m[i] # m[i + 1]}) < MaxRuns}

DfmOf(dims, metrics) ==
    [columns |-> <<C_ORGAO, C_ACAO>>,
     rows    |-> [i \in 1..Len(dims) |->
                     [cells |-> <<Some(<<"X">>), DimPool[dims[i]]>>,
                      _atualizado |-> metrics[i].at, _empenhado |-> metrics[i].em,
                      _realizado |-> metrics[i].re, _pct |-> metrics[i].pct]]]

InitAgg ==
    /\ Idle
    /\ pc = "call"
    /\ \E n \in 0..MaxRows :
           \E d \in DimChoices(n), m \in MetricChoices(n) : arg = DfmOf(d, m)
    /\ ret = None

\* build_agg(COL_ACAO_COD) on arg as dfm, under the sidebar's settings.
BuildAgg ==
    /\ pc = "call"
    /\ \E mostrar_tudo \in BOOLEAN, limite_n \in Limites :
           ret' = Some([mostrar_tudo |-> mostrar_tudo, limite_n |-> limite_n,
                        agg |-> build_agg(arg, C_ACAO, mostrar_tudo, limite_n)])
    /\ pc' = "done"
    /\ UNCHANGED <<idle, arg>>

NextAgg == BuildAgg

SpecAgg == InitAgg /\ [][NextAgg]_vars

\* The dimension value of row i of the metrics table in arg.
DimOfRow(i) ==
    LET j == CHOOSE k \in 1..Len(arg.columns) : arg.columns[k] = C_ACAO
    IN  arg.rows[i].cells[j]

\* The rows of arg whose dimension value is k, in row order.
RowsOfDim(k) == InOrder({i \in 1..Len(arg.rows) : DimOfRow(i) = k})

\* The dimension values of arg, the missing one included.
DimsOfArg == {DimOfRow(i) : i \in 1..Len(arg.rows)}

\* The sum of realizado over the rows of arg whose dimension value is k.
RealizadoOfDim(k) ==
    LET idx == RowsOfDim(k)
    IN  SumSeq([n \in 1..Len(idx) |-> arg.rows[idx[n]]._realizado])

\* The dimension values no returned group stands for.
OmittedDims == {k \in DimsOfArg : \A a \in 1..Len(ret[1].agg) :
                                      ret[1].agg[a].rows \cap {i \in 1..Len(arg.rows) : DimOfRow(i) = k} = {}}

\* C7: build_agg partitions the rows by the value of the dimension column,
\* the missing value forming a group of its own: a returned group holds
\* exactly the rows of one value, no row is in two groups, and with "show
\* all" on every row is in a group and the groups' sums of atualizado,
\* empenhado and realizado add up to the KPI totals over the rows.
C7_PartitionWithNullGroup ==
    pc = "done" =>
        LET agg  == ret[1].agg
            n    == Len(arg.rows)
            dims == DimsOfArg
        IN  /\ \A a \in 1..Len(agg) :
                   /\ agg[a].rows # {}
                   /\ \E k \in dims :
                          /\ agg[a].dim = DimLabel(k)
                          /\ agg[a].rows = {i \in 1..n : DimOfRow(i) = k}
                          /\ agg[a].realizado = RealizadoOfDim(k)
            /\ \A a, b \in 1..Len(agg) : a # b => agg[a].rows \cap agg[b].rows = {}
            /\ ret[1].mostrar_tudo =>
                   /\ UNION {agg[a].rows : a \in 1..Len(agg)} = 1..n
                   /\ SumSeq([a \in 1..Len(agg) |-> agg[a].atualizado]) = total_at(arg)
                   /\ SumSeq([a \in 1..Len(agg) |-> agg[a].empenhado]) = total_em(arg)
                   /\ SumSeq([a \in 1..Len(agg) |-> agg[a].realizado]) = total_re(arg)

\* C7 witness: with "show all" on, a table with rows of a missing dimension
\* value, a value of several rows and a third value has been aggregated.
C7_Witness ==
    /\ pc = "done"
    /\ ret[1].mostrar_tudo
    /\ Len(ret[1].agg) >= 3
    /\ \E i, j \in 1..Len(arg.rows) : i # j /\ DimOfRow(i) = None /\ DimOfRow(j) = None
    /\ \E a \in 1..Len(ret[1].agg) : ret[1].agg[a].dim = <<"n","a","n">>
    /\ total_re(arg) # Zero

\* C8: build_agg returns its groups in non-increasing order of their sum of
\* realizado; with "show all" off it returns the first limite_n of them (all
\* of them when there are fewer), so no omitted group has a larger sum than
\* a returned one; with "show all" on no group is omitted.
C8_SortedTopN ==
    pc = "done" =>
        LET agg == ret[1].agg
        IN  /\ \A a, b \in 1..Len(agg) : a < b => Leq(agg[b].realizado, agg[a].realizado)
            /\ ~ret[1].mostrar_tudo =>
                   /\ Len(agg) <= ret[1].limite_n
                   /\ Len(agg) = IF Cardinality(DimsOfArg) < ret[1].limite_n
                                  THEN Cardinality(DimsOfArg) ELSE ret[1].limite_n
                   /\ \A k \in OmittedDims : \A a \in 1..Len(agg) :
                          Leq(RealizadoOfDim(k), agg[a].realizado)
            /\ ret[1].mostrar_tudo => OmittedDims = {}

\* C8 witness: with "show all" off, a table of more than limite_n groups has
\* been cut to limite_n groups; the omitted group has a strictly smaller sum
\* than the last returned one and comes before a returned group in the order
\* of the keys, so it is the sort that left it out.
C8_Witness ==
    /\ pc = "done"
    /\ ~ret[1].mostrar_tudo
    /\ Cardinality(DimsOfArg) > ret[1].limite_n
    /\ Len(ret[1].agg) = ret[1].limite_n
    /\ \E k \in OmittedDims :
           /\ ~Leq(ret[1].agg[Len(ret[1].agg)].realizado, RealizadoOfDim(k))
           /\ \E k2 \in DimsOfArg \ OmittedDims : KeyLess(k, k2)

-----------------------------------------------------------------------------
(* filtrar_df *)

\* str(v) of a selected value: the options of the multiselects are strings.
py_str(v) == v

\* series.astype(str).isin([str(v) for v in vals])
isin(series, vals) ==
    [i \in 1..Len(series) |->
        InSeq(astype_str(series[i]), [k \in 1..Len(vals) |-> py_str(vals[k])])]

\* out[mask]: the rows whose mask is True, in their order.
boolean_index(out, mask) ==
    LET idx == InOrder({i \in 1..Len(out.rows) : mask[i]})
    IN  [columns |-> out.columns, rows |-> [n \in 1..Len(idx) |-> out.rows[idx[n]]]]

RECURSIVE filtrar_df_loop_no_vals(_, _)
\* The loop without the test of vals: "if col in out.columns".
filtrar_df_loop_no_vals(out, items) ==
    IF items = <<>> THEN out
    ELSE LET col  == Head(items).col
             vals == Head(items).vals
         IN  filtrar_df_loop_no_vals(
                 IF InSeq(col, out.columns)
                 THEN boolean_index(out, isin(ColumnOf(out, col), vals))
                 ELSE out,
                 Tail(items))

RECURSIVE filtrar_df_loop(_, _)
\* for col, vals in filtros.items(): if vals and col in out.columns: ...
filtrar_df_loop(out, items) ==
    IF items = <<>> THEN out
    ELSE LET col  == Head(items).col
             vals == Head(items).vals
         IN  filtrar_df_loop(
                 IF vals # <<>> /\ InSeq(col, out.columns)
                 THEN boolean_index(out, isin(ColumnOf(out, col), vals))
                 ELSE out,
                 Tail(items))

\* filtrar_df(df, filtros), filtros given as its items in the dict's order.
filtrar_df(d, filtros) == filtrar_df_loop(d, filtros)

MaxFilterRows == 2

\* Cells: a text, the text "nan" and a missing value.
FilterCells == {Some(<<"A">>), Some(<<"n","a","n">>), None}

\* The tables filtered: one or two columns, at most MaxFilterRows rows.
FilterTables ==
    UNION {{[columns |-> cols, rows |-> rows] :
               rows \in SeqsUpTo([1..Len(cols) -> FilterCells], MaxFilterRows)} :
           cols \in {<<C_ORGAO>>, <<C_ORGAO, C_ACAO>>}}

\* The columns a filter may name (C_GND is in none of the tables) and the
\* selections of a multiselect.
FilterCols == {C_ORGAO, C_ACAO, C_GND}
Selections == {<<>>, <<<<"A">>>>, <<<<"n","a","n">>, <<"B">>>>}

RECURSIVE DictItems(_)
\* The items of the dicts over the keys K, in every order of insertion.
DictItems(K) ==
    {<<>>} \cup UNION {{<<[col |-> c, vals |-> v]>> \o rest :
                           v \in Selections, rest \in DictItems(K \ {c})} : c \in K}

InitFilter ==
    /\ Idle
    /\ pc = "call"
    /\ \E d \in FilterTables, f \in DictItems(FilterCols) : arg = [df |-> d, filtros |-> f]
    /\ ret = None

\* df_f = filtrar_df(df, filtros) (line 355)
FiltrarDf ==
    /\ pc = "call"
    /\ ret' = Some(filtrar_df(arg.df, arg.filtros))
    /\ pc' = "done"
    /\ UNCHANGED <<idle, arg>>

NextFilter == FiltrarDf

SpecFilter == InitFilter /\ [][NextFilter]_vars

\* The filters of arg that restrict: a non-empty selection on a column of
\* the table.
ActiveFilters ==
    {k \in 1..Len(arg.filtros) :
        arg.filtros[k].vals # <<>> /\ InSeq(arg.filtros[k].col, arg.df.columns)}

\* The rows of arg.df whose text in every restricting filter's column is
\* one of that filter's selected values.
KeptRows ==
    {i \in 1..Len(arg.df.rows) :
        \A k \in ActiveFilters :
            InSeq(astype_str(ColumnOf(arg.df, arg.filtros[k].col)[i]), arg.filtros[k].vals)}

Orders(n) == {p \in [1..n -> 1..n] : \A i, j \in 1..n : p[i] = p[j] => i = j}

\* C12: filtrar_df keeps a row iff, for every filter whose column is in the
\* table and whose selection is not empty, the row's value as text is one
\* of the selected values: the result has the columns of the table and the
\* kept rows in their order, is the table itself when no filter restricts,
\* is unchanged by filtering again, and is the same for every order of the
\* filters.
C12_ConjunctiveFilter ==
    pc = "done" =>
        LET d   == arg.df
            f   == arg.filtros
            out == ret[1]
            idx == InOrder(KeptRows)
        IN  /\ out.columns = d.columns
            /\ out.rows = [n \in 1..Len(idx) |-> d.rows[idx[n]]]
            /\ ActiveFilters = {} => out = d
            /\ filtrar_df(d, <<>>) = d
            /\ filtrar_df(out, f) = out
            /\ \A p \in Orders(Len(f)) :
                   filtrar_df(d, [k \in 1..Len(f) |-> f[p[k]]]) = out

\* C12 witness: three filters, two of them restricting on different columns
\* and one on a column the table lacks, have kept a row whose missing value
\* reads "nan" and dropped another.
C12_Witness ==
    /\ pc = "done"
    /\ Len(arg.filtros) = 3
    /\ Cardinality(ActiveFilters) = 2
    /\ \E k \in 1..3 : arg.filtros[k].col = C_GND /\ arg.filtros[k].vals # <<>>
    /\ Len(ret[1].rows) = 1
    /\ Len(arg.df.rows) = 2
    /\ ret[1].rows[1][1] = None
    /\ ret[1].rows[1] = arg.df.rows[2]

====
